---- MODULE Spec2Model ----
(***************************************************************************)
(* Voxel storage core of yohandev/miners: packed cells, the block          *)
(* registry, the chunk with its slab arena, and the world's concurrent     *)
(* chunk loading.                                                          *)
(***************************************************************************)
EXTENDS Integers, Sequences, FiniteSets, TLC

VARIABLES
    registry,   \* util::Registry.rev: the registered type keys, in id order (SpecRegistry: map and rev)
    phase,      \* "startup" while the registry is built, "running" once a chunk holds it
    chunk,      \* the Chunk under test (chunk-level specification)
    panicked,   \* a thread of the program has panicked (slab: "invalid key")
    written,    \* history: flat index -> the block the last Chunk::set at it stored
                \* (SpecJobs: the results sent on the channel and not yet received)
    chunks,     \* World.chunks: the chunk positions that have an entry in the map
    arcs,       \* the Arc<RwLock<Chunk>> made for each position: lock state and chunk
    loading,    \* World.loading: the AtomicUsize
    workers,    \* the rayon jobs spawned by load_chunk, by chunk position
                \* (SpecJobs: the closures handed to the ThreadPool, by job)
    engine,     \* the engine thread: idle, or inside load_chunk before the insert
                \* (SpecJobs: idle, or consuming the iterator join returned)
    noise,      \* the terrain height function, column -> height
    nsets,      \* history: how many World::set calls have written so far
    last        \* history: the last call of the engine thread and what it returned

vars == <<registry, phase, chunk, panicked, written,
          chunks, arcs, loading, workers, engine, noise, nsets, last>>

worldVars == <<chunks, arcs, loading, workers, engine, noise, nsets, last>>

None == [none |-> TRUE]

----------------------------------------------------------------------------
(* Machine integers *)

U8  == 256
U16 == 65536

RECURSIVE BitAnd(_, _)
BitAnd(a, b) ==
    IF a = 0 \/ b = 0 THEN 0
    ELSE (IF a % 2 = 1 /\ b % 2 = 1 THEN 1 ELSE 0) + 2 * BitAnd(a \div 2, b \div 2)

RECURSIVE BitOr(_, _)
BitOr(a, b) ==
    IF a = 0 THEN b
    ELSE IF b = 0 THEN a
    ELSE (IF a % 2 = 1 \/ b % 2 = 1 THEN 1 ELSE 0) + 2 * BitOr(a \div 2, b \div 2)

Pow2(n) == 2^n

Shl(a, n, width) == (a * Pow2(n)) % width
Shr(a, n) == a \div Pow2(n)
BitNot(a, width) == width - 1 - a

----------------------------------------------------------------------------
(* util::Bits<N> *)

\* new without the clipping mask
BitsNewUnclipped(N, val) == val

\* impl LessThan<Literal<b>> for Literal<a>: written out for 0 <= a < b <= 7
LessThan(a, b) == a < b /\ b <= 7

\* impl LessThanOrEqual<Literal<b>> for Literal<a>: the blanket implementation
\* over LessThan, and a = b written out for 0..7
LessThanOrEqual(a, b) == LessThan(a, b) \/ (a = b /\ a <= 7)

\* The where clause of Bits::<N>::get::<START, END> and set::<START, END>
RangeCompiles(N, START, END) ==
    /\ LessThan(START, END)
    /\ LessThan(START, N)
    /\ LessThanOrEqual(END, N)

\* Bits::<N>::new
BitsNew(N, val) == BitAnd(val, Shr(255, 8 - N))

\* Bits::<N>::get::<START, END>
BitsGet(N, bits, START, END) ==
    BitAnd(Shr(bits, N - END), Shr(255, 8 - (END - START)))

\* Bits::<N>::set::<START, END>
BitsSet(N, bits, START, END, val) ==
    LET mask  == Shr(255, 8 - (END - START))
        shift == N - END
        clear == BitAnd(bits, BitNot(Shl(mask, shift, U8), U8))
    IN  BitOr(clear, Shl(BitAnd(val, mask), shift, U8))

----------------------------------------------------------------------------
(* block::Packed *)

\* Packed::tag
tag(word) == IF Shr(word, 15) = 0 THEN "Val" ELSE "Ptr"

\* from_val with the id shifted by the width of the id field
from_val_shift9(id, state) == BitOr(Shl(id, 9, U16), state)

\* Packed::from_val
from_val(id, state) == BitOr(Shl(id, 6, U16), state)

\* Packed::from_ptr
from_ptr(slot) == BitOr(Shl(1, 15, U16), slot % U16)

\* PartialEq for Packed: the 16-bit words are compared
PackedEq(a, b) == a = b

\* Packed::zeroed
zeroed == 0

\* Val::id
ValId(word) == Shr(BitAnd(word, 32704), 6)

\* Val::state
ValState(word) == BitsNew(6, word % U8)

\* set_state without clearing the old state bits
set_state_or(word, state) == BitOr(word, state)

\* Val::set_state
set_state(word, state) == BitOr(BitAnd(word, 65472), state)

\* Ptr::slot
PtrSlot(word) == BitAnd(word, 32767)

----------------------------------------------------------------------------
(* Block types: the vanilla catalog and the derive of block::State *)

WoodVariants == <<"Oak", "Spruce", "Birch", "Jungle", "Acacia", "DarkOak">>
Directions4  == <<"North", "South", "East", "West">>
Directions6  == <<"North", "South", "East", "West", "Up", "Down">>

BlockTypes == {"BlockAir", "BlockChest", "BlockWoodenPlanks", "BlockWoodenSlab"}

\* The #[prop(...)] attribute of every field, in declaration order
Props(T) ==
    CASE T = "BlockAir" -> << >>
      [] T = "BlockWoodenPlanks" ->
            << [ident |-> "variant", attr |-> "Enum", variants |-> WoodVariants] >>
      [] T = "BlockWoodenSlab" ->
            << [ident |-> "facing", attr |-> "Enum", variants |-> Directions6],
               [ident |-> "variant", attr |-> "Enum", variants |-> WoodVariants] >>
      [] T = "BlockChest" ->
            << [ident |-> "contents", attr |-> "Never", variants |-> << >>],
               [ident |-> "facing", attr |-> "Enum", variants |-> Directions4],
               [ident |-> "name", attr |-> "Never", variants |-> << >>] >>

\* LitRange::parse: the Range<i32> kept for a range literal from..to or from..=to
LitRangeOf(field) ==
    IF field.limits = "HalfOpen"
    THEN [start |-> field.from, end |-> field.to]
    ELSE [start |-> field.from, end |-> field.to - 1]

\* LitRange::range_inclusive
range_inclusive(field) ==
    [start |-> LitRangeOf(field).start, end |-> LitRangeOf(field).end + 1]

\* Range<i32>::len
RangeLen(r) == IF r.end > r.start THEN r.end - r.start ELSE 0

\* Attribute::bit_size; -1 stands for Option::None
bit_size(field) ==
    CASE field.attr = "Never" -> -1
      [] field.attr = "Range" -> RangeLen(LitRangeOf(field))
      [] OTHER -> Len(field.variants)

\* .map(|f| f.attr.bit_size()).sum::<Option<usize>>()
RECURSIVE SumSizes(_, _)
SumSizes(fields, n) ==
    IF n = 0 THEN 0
    ELSE LET head == SumSizes(fields, n - 1)
             here == bit_size(fields[n])
         IN  IF head = -1 \/ here = -1 THEN -1 ELSE head + here

bitsize(T) == SumSizes(Props(T), Len(Props(T)))

\* derive_block_state: the representation chosen for a struct with these fields
derive_block_state(fields) ==
    LET size == SumSizes(fields, Len(fields))
    IN  IF size # -1 /\ size <= 6 THEN "Val" ELSE "Ptr"

\* <T as Block>::REPR, as derive_block_state chooses it
REPR(T) == derive_block_state(Props(T))

\* The offset of field n: the running sum of the sizes before it
RECURSIVE OffsetOf(_, _)
OffsetOf(fields, n) ==
    IF n = 1 THEN 0 ELSE OffsetOf(fields, n - 1) + bit_size(fields[n - 1])

IndexOf(seq, x) ==
    IF \E i \in 1..Len(seq) : seq[i] = x
    THEN (CHOOSE i \in 1..Len(seq) : seq[i] = x) - 1
    ELSE -1

\* impl_into_packed: the code written into the buffer for one field
FieldCode(field, block) ==
    IF field.attr = "Range"
    THEN LET n    == block[field.ident]
             FROM == range_inclusive(field).start
             TO   == range_inclusive(field).end
         IN  IF FROM <= n /\ n <= TO THEN (n - FROM) % U8 ELSE 0
    ELSE LET idx == IndexOf(field.variants, block[field.ident])
         IN  IF idx = -1 THEN 0 ELSE idx

\* Repr::Val::into_packed, as generated: buf.set::<offset, offset + size>(code)
RECURSIVE IntoPackedFields(_, _, _)
IntoPackedFields(fields, block, n) ==
    IF n = 0 THEN 0
    ELSE LET buf == IntoPackedFields(fields, block, n - 1)
             off == OffsetOf(fields, n)
         IN  BitsSet(6, buf, off, off + bit_size(fields[n]), FieldCode(fields[n], block))

into_packed(block) == IntoPackedFields(Props(block.T), block, Len(Props(block.T)))

\* impl_from_packed: the value of one field read back from the buffer
FieldValue(fields, n, packed) ==
    LET off  == OffsetOf(fields, n)
        code == BitsGet(6, packed, off, off + bit_size(fields[n]))
    IN  IF fields[n].attr = "Range"
        THEN (code + range_inclusive(fields[n]).start) % U8
        ELSE IF code < Len(fields[n].variants)
        THEN fields[n].variants[code + 1]
        ELSE fields[n].variants[1]

\* from_packed that decodes every field to its first listed variant
from_packed_default(T, packed) ==
    LET fields == Props(T)
    IN  [k \in {"T"} \cup {fields[n].ident : n \in 1..Len(fields)} |->
            IF k = "T" THEN T
            ELSE (fields[CHOOSE n \in 1..Len(fields) : fields[n].ident = k]).variants[1]]

\* from_packed as generated for a struct T with these fields
FromPackedFields(fields, T, packed) ==
    [k \in {"T"} \cup {fields[n].ident : n \in 1..Len(fields)} |->
        IF k = "T" THEN T
        ELSE FieldValue(fields,
                        CHOOSE n \in 1..Len(fields) : fields[n].ident = k,
                        packed)]

\* Repr::Val::from_packed, as generated: Self { field: ..., ... }
from_packed(T, packed) ==
    LET fields == Props(T)
    IN  [k \in {"T"} \cup {fields[n].ident : n \in 1..Len(fields)} |->
            IF k = "T" THEN T
            ELSE FieldValue(fields,
                            CHOOSE n \in 1..Len(fields) : fields[n].ident = k,
                            packed)]

\* <T as Block>::ID
BlockID(T) ==
    CASE T = "BlockAir" -> "air"
      [] T = "BlockChest" -> "chest"
      [] T = "BlockWoodenPlanks" -> "wooden_planks"
      [] T = "BlockWoodenSlab" -> "wooden_slab"
      [] OTHER -> "?"

\* <T as Block>::name(&self)
BlockName(block) ==
    CASE block.T = "BlockAir" -> <<"Air">>
      [] block.T = "BlockChest" ->
            IF block.name = "None" THEN <<"Chest">> ELSE <<block.name>>
      [] block.T = "BlockWoodenPlanks" -> <<block.variant, "Planks">>
      [] block.T = "BlockWoodenSlab" -> <<block.variant, "Slab">>
      [] OTHER -> <<"?">>

----------------------------------------------------------------------------
(* util::Registry and block::Registry *)

\* Registry::default
RegistryDefault == << >>

\* Registry::register
register(reg, T) ==
    IF \E i \in 1..Len(reg) : reg[i] = T THEN reg ELSE Append(reg, T)

\* Registry::id; -1 stands for Option::None
RegistryId(reg, T) == IndexOf(reg, T)

----------------------------------------------------------------------------
(* slab::Slab, the arena behind Chunk::addr_blocks *)

Vacant(next) == [occupied |-> FALSE, val |-> None, next |-> next]
Occupied(val) == [occupied |-> TRUE, val |-> val, next |-> 0]

\* Slab::default
SlabNew == [entries |-> << >>, len |-> 0, next |-> 0]

\* Slab::contains
SlabContains(slab, key) ==
    key < Len(slab.entries) /\ slab.entries[key + 1].occupied

\* Slab::insert: the key handed out and the slab afterwards
SlabInsert(slab, val) ==
    LET key == slab.next
    IN  IF key = Len(slab.entries)
        THEN [key |-> key,
              slab |-> [entries |-> Append(slab.entries, Occupied(val)),
                        len |-> slab.len + 1,
                        next |-> key + 1]]
        ELSE [key |-> key,
              slab |-> [entries |-> [slab.entries EXCEPT ![key + 1] = Occupied(val)],
                        len |-> slab.len + 1,
                        next |-> slab.entries[key + 1].next]]

\* Slab::remove: panics ("invalid key") when the key holds no value
SlabRemove(slab, key) ==
    IF SlabContains(slab, key)
    THEN [panic |-> FALSE,
          slab |-> [entries |-> [slab.entries EXCEPT ![key + 1] = Vacant(slab.next)],
                    len |-> slab.len - 1,
                    next |-> key]]
    ELSE [panic |-> TRUE, slab |-> slab]

\* The keys that hold a value
SlabLive(slab) == {k \in 0..(Len(slab.entries) - 1) : slab.entries[k + 1].occupied}

----------------------------------------------------------------------------
(* Chunk *)

\* Chunk::SIZE
SIZE == 32

\* Chunk::VOLUME
VOLUME == 32768

\* Number of chunk cells the model follows (the others stay untouched)
NumTracked == 2

TrackedList == << <<0, 0, 0>>, <<1, 2, 3>>, <<31, 31, 31>>, <<0, 1, 0>>, <<5, 0, 7>> >>

\* In-bounds positions the model reads and writes
TrackedPos == {TrackedList[i] : i \in 1..NumTracked}

\* Positions outside the chunk
OutsidePos == { <<32, 0, 0>>, <<0, 32, 0>>, <<1, 2, 40>> }

\* Chunk::in_bounds
in_bounds(pos) == pos[1] < SIZE /\ pos[2] < SIZE /\ pos[3] < SIZE

\* Chunk::flatten_idx
flatten_idx(pos) == pos[1] + SIZE * (pos[2] + SIZE * pos[3])

Cells == {flatten_idx(p) : p \in TrackedPos}

\* Chunk positions (1 unit = 32 blocks) the model creates chunks at
ChunkPositions == { <<0, 0, 0>>, <<0, -1, 0>> }

\* Chunk::new with every cell a slot-shaped word
ChunkNewSlots(pos) ==
    [pos |-> pos,
     blocks |-> [i \in Cells |-> from_ptr(0)],
     others |-> from_ptr(0),
     addr_blocks |-> SlabNew]

\* Chunk::new; `blocks` are the cells the model follows, `others` is the word
\* held by each of the VOLUME - NumTracked cells that no operation of the model
\* writes
ChunkNew(pos) ==
    [pos |-> pos,
     blocks |-> [i \in Cells |-> zeroed],
     others |-> zeroed,
     addr_blocks |-> SlabNew]

\* What a read that is undefined behaviour may produce: an object that is no
\* block of the program, or no return at all (the process dies on the wild read)
Garbage == [T |-> "<garbage>"]
Abort == [T |-> "<abort>"]

BlockAir == [T |-> "BlockAir"]
BlockWoodenPlanks(variant) == [T |-> "BlockWoodenPlanks", variant |-> variant]
BlockWoodenSlab(facing, variant) ==
    [T |-> "BlockWoodenSlab", facing |-> facing, variant |-> variant]
BlockChest(facing, contents, name) ==
    [T |-> "BlockChest", contents |-> contents, facing |-> facing, name |-> name]

\* The block values the model stores
Blocks ==
    { BlockAir,
      BlockWoodenPlanks("Birch"),
      BlockChest("North", <<"Stick x64">>, "None"),
      BlockChest("North", <<"Stick x64">>, "Alice's Chest"),
      BlockWoodenSlab("Down", "Oak") }

Undefined == Blocks \cup {Garbage, Abort}

\* Registry::create_ref: the object a value-shaped cell resolves to
create_ref(reg, word) ==
    LET id == ValId(word)
    IN  IF id < Len(reg) /\ REPR(reg[id + 1]) = "Val"
        THEN {from_packed(reg[id + 1], ValState(word))}
        ELSE Undefined

\* Chunk::get_unchecked_flat: the objects the read may yield (one, unless the
\* read is undefined behaviour)
get_unchecked_flat(reg, ch, id) ==
    LET state == IF id \in DOMAIN ch.blocks THEN ch.blocks[id] ELSE ch.others
    IN  IF tag(state) = "Val"
        THEN create_ref(reg, state)
        ELSE IF SlabContains(ch.addr_blocks, PtrSlot(state))
             THEN {ch.addr_blocks.entries[PtrSlot(state) + 1].val}
             ELSE Undefined

\* Chunk::get_unchecked
get_unchecked(reg, ch, pos) == get_unchecked_flat(reg, ch, flatten_idx(pos))

\* Iter::next at self.next = next: the item yielded (None at the end) and the
\* index afterwards
IterNext(reg, ch, next) ==
    IF next < VOLUME
    THEN [item |-> [pos   |-> << BitAnd(next, 31), BitAnd(Shr(next, 5), 31), Shr(next, 10) >>,
                    block |-> get_unchecked_flat(reg, ch, next)],
          next |-> next + 1]
    ELSE [item |-> None, next |-> next]

\* Chunk::get_unchecked_mut: the same resolution as get_unchecked, through
\* create_ref_mut and Slab::get_unchecked_mut
get_unchecked_mut(reg, ch, pos) == get_unchecked_flat(reg, ch, flatten_idx(pos))

\* Chunk::get; None stands for Option::None
ChunkGet(reg, ch, pos) ==
    IF in_bounds(pos) THEN get_unchecked(reg, ch, pos) ELSE {None}

\* Chunk::get_mut
ChunkGetMut(reg, ch, pos) ==
    IF in_bounds(pos) THEN get_unchecked_mut(reg, ch, pos) ELSE {None}

\* Chunk::set_unchecked without the release of the slot the cell held
set_unchecked_keep(reg, ch, pos, block) ==
    LET idx == flatten_idx(pos)
        id  == RegistryId(reg, block.T)
    IN  IF id = -1 THEN [chunk |-> ch, panic |-> FALSE]
        ELSE IF REPR(block.T) = "Val"
        THEN [chunk |-> [ch EXCEPT !.blocks[idx] = from_val(id % U16, into_packed(block))],
              panic |-> FALSE]
        ELSE LET ins == SlabInsert(ch.addr_blocks, block)
             IN  [chunk |-> [ch EXCEPT !.addr_blocks = ins.slab,
                                       !.blocks[idx] = from_ptr(ins.key)],
                  panic |-> FALSE]

\* Chunk::set_unchecked: the chunk afterwards, and whether the call panicked
set_unchecked(reg, ch, pos, block) ==
    LET idx == flatten_idx(pos)
        old == ch.blocks[idx]
        rem == IF tag(old) = "Ptr"
               THEN SlabRemove(ch.addr_blocks, PtrSlot(old))
               ELSE [panic |-> FALSE, slab |-> ch.addr_blocks]
        id  == RegistryId(reg, block.T)
    IN  IF rem.panic THEN [chunk |-> ch, panic |-> TRUE]
        ELSE IF id = -1
        THEN [chunk |-> [ch EXCEPT !.addr_blocks = rem.slab], panic |-> FALSE]
        ELSE IF REPR(block.T) = "Val"
        THEN [chunk |-> [ch EXCEPT !.addr_blocks = rem.slab,
                                   !.blocks[idx] = from_val(id % U16, into_packed(block))],
              panic |-> FALSE]
        ELSE LET ins == SlabInsert(rem.slab, block)
             IN  [chunk |-> [ch EXCEPT !.addr_blocks = ins.slab,
                                       !.blocks[idx] = from_ptr(ins.key)],
                  panic |-> FALSE]

\* Chunk::set
ChunkSet(reg, ch, pos, block) ==
    IF in_bounds(pos) THEN set_unchecked(reg, ch, pos, block)
    ELSE [chunk |-> ch, panic |-> FALSE]

\* Number of live instances in the arena (Slab::len)
LiveCount(ch) == Cardinality(SlabLive(ch.addr_blocks))

----------------------------------------------------------------------------
(* The chunk-level program: build a registry, create a chunk, set and get *)

NoWorld ==
    /\ chunks = {}
    /\ arcs = << >>
    /\ loading = 0
    /\ workers = << >>
    /\ engine = None
    /\ noise = << >>
    /\ nsets = 0
    /\ last = None

\* The registries the startup code builds before the first chunk exists
RegisterAll(types) ==
    LET F[n \in 0..Len(types)] ==
            IF n = 0 THEN RegistryDefault ELSE register(F[n - 1], types[n])
    IN  F[Len(types)]

Startups ==
    { <<"BlockAir", "BlockChest", "BlockWoodenPlanks", "BlockWoodenSlab">>,
      <<"BlockAir", "BlockWoodenPlanks", "BlockAir">>,
      <<"BlockChest", "BlockWoodenPlanks">>,
      << >> }

InitChunk ==
    /\ registry \in {RegisterAll(types) : types \in Startups}
    /\ phase = "startup"
    /\ chunk = None
    /\ panicked = FALSE
    /\ written = << >>
    /\ NoWorld

\* Chunk::new(pos, &registry)
NewChunk(pos) ==
    /\ phase = "startup"
    /\ phase' = "running"
    /\ chunk' = ChunkNew(pos)
    /\ written' = [i \in Cells |-> None]
    /\ UNCHANGED <<registry, panicked>>
    /\ UNCHANGED worldVars

\* chunk.set(pos, block)
Set(pos, block) ==
    /\ phase = "running"
    /\ ~panicked
    /\ LET r == ChunkSet(registry, chunk, pos, block)
       IN  /\ chunk' = r.chunk
           /\ panicked' = r.panic
           /\ written' =
                IF ~in_bounds(pos) \/ r.panic THEN written
                ELSE [written EXCEPT ![flatten_idx(pos)] =
                        IF RegistryId(registry, block.T) = -1 THEN None ELSE block]
    /\ UNCHANGED <<registry, phase>>
    /\ UNCHANGED worldVars

NextChunk ==
    \/ \E pos \in ChunkPositions : NewChunk(pos)
    \/ \E pos \in TrackedPos \cup OutsidePos, block \in Blocks : Set(pos, block)

SpecChunk == InitChunk /\ [][NextChunk]_vars

----------------------------------------------------------------------------
(* World *)

\* Guards the engine thread keeps alive at once
MaxHandles == 1

\* World::set calls that write, over a run
MaxWorldSets == 1

\* Rust's `/` on i32: the quotient truncated toward zero
TruncDiv(a, b) == IF a >= 0 THEN a \div b ELSE -((-a) \div b)

\* `as usize` on an i32, as far as the low 16 bits (all that `& 0x1f` reads)
as_usize(v) == v % U16

\* pos / Chunk::SIZE as i32: the key World::get, get_mut and set look up
ChunkKey(pos) ==
    << TruncDiv(pos[1], SIZE), TruncDiv(pos[2], SIZE), TruncDiv(pos[3], SIZE) >>

\* pos.as_() & 0x1f: the position inside the chunk
LocalPos(pos) ==
    << BitAnd(as_usize(pos[1]), 31), BitAnd(as_usize(pos[2]), 31),
       BitAnd(as_usize(pos[3]), 31) >>

\* World positions the engine thread reads and writes
WorldPositions ==
    { <<0, 0, 0>>, <<1, 2, 3>>, <<0, -32, 0>>, <<1, -30, 3>>, <<32, 0, 0>> }

\* Blocks the engine thread writes through the world
WorldBlocks ==
    { BlockChest("North", <<"Stick x64">>, "None") }

\* The block a generation job fills its chunk with
SolidBlock == BlockWoodenPlanks("Jungle")

\* The (x, z) columns of the cells the model follows
Columns == {<<p[1], p[3]>> : p \in TrackedPos}

\* Terrain heights, (noise * 100.0) as i32
Heights == {-31, 0}

\* The order in which the job visits the cells: x, then z, then y
FillBefore(p, q) ==
    \/ p[1] < q[1]
    \/ p[1] = q[1] /\ p[3] < q[3]
    \/ p[1] = q[1] /\ p[3] = q[3] /\ p[2] < q[2]

FillOrder ==
    CHOOSE seq \in [1..Cardinality(TrackedPos) -> TrackedPos] :
        \A i \in DOMAIN seq, j \in DOMAIN seq : i < j => FillBefore(seq[i], seq[j])

\* A try_write that looks at the writer only and not at the readers
try_write_past_readers(lock) == lock.writer = "none"

\* A try_read that succeeds whatever the writer bit says
try_read_past_writer(lock) == lock.readers >= 0

\* RwLock::try_read (parking_lot): fails while a writer holds or awaits the lock
try_read(lock) == lock.writer = "none"

\* RwLock::try_write
try_write(lock) == lock.writer = "none" /\ lock.readers = 0

\* Guards the engine thread holds
HeldGuards ==
    LET held(cp) == IF arcs[cp] = None THEN 0
                    ELSE arcs[cp].readers + (IF arcs[cp].writer = "engine" THEN 1 ELSE 0)
        Sum[S \in SUBSET ChunkPositions] ==
            IF S = {} THEN 0
            ELSE LET cp == CHOOSE c \in S : TRUE IN held(cp) + Sum[S \ {cp}]
    IN  Sum[ChunkPositions]

Idle == engine = None /\ ~panicked

\* World::new(registry), with the registry of test_world
Init ==
    /\ registry = RegisterAll(
            <<"BlockAir", "BlockChest", "BlockWoodenPlanks", "BlockWoodenSlab">>)
    /\ phase = "running"
    /\ chunk = None
    /\ panicked = FALSE
    /\ written = << >>
    /\ chunks = {}
    /\ arcs = [cp \in ChunkPositions |-> None]
    /\ loading = 0
    /\ workers = [cp \in ChunkPositions |-> [pc |-> "none", at |-> 0]]
    /\ engine = None
    /\ noise \in {[c \in Columns |-> h] : h \in Heights}
    /\ nsets = 0
    /\ last = None

noWorldChunk == UNCHANGED <<registry, phase, chunk, written, noise>>

\* World::load_chunk without the contains_key early return
LoadChunkAlways(pos) ==
    /\ Idle
    /\ HeldGuards = 0
    /\ arcs' = [arcs EXCEPT ![pos] =
                    [chunk |-> ChunkNew(pos), readers |-> 0, writer |-> "none"]]
    /\ workers' = [workers EXCEPT ![pos] = [pc |-> "spawned", at |-> 0]]
    /\ engine' = [inserting |-> pos]
    /\ UNCHANGED <<chunks, loading, nsets, last, panicked>>
    /\ noWorldChunk

\* World::load_chunk up to rayon::spawn (or its early return)
LoadChunk(pos) ==
    /\ Idle
    /\ HeldGuards = 0
    /\ IF pos \in chunks
       THEN /\ last' = [op |-> "load_chunk", ret |-> "present"]
            /\ UNCHANGED <<arcs, workers, engine>>
       ELSE /\ arcs' = [arcs EXCEPT ![pos] =
                            [chunk |-> ChunkNew(pos), readers |-> 0, writer |-> "none"]]
            /\ workers' = [workers EXCEPT ![pos] = [pc |-> "spawned", at |-> 0]]
            /\ engine' = [inserting |-> pos]
            /\ UNCHANGED last
    /\ UNCHANGED <<chunks, loading, nsets, panicked>>
    /\ noWorldChunk

\* World::load_chunk: self.chunks.insert(pos, chunk)
LoadChunkInsert ==
    /\ engine # None
    /\ chunks' = chunks \cup {engine.inserting}
    /\ engine' = None
    /\ last' = [op |-> "load_chunk", ret |-> "spawned"]
    /\ UNCHANGED <<arcs, workers, loading, nsets, panicked>>
    /\ noWorldChunk

\* The job: count.fetch_add(1, Ordering::Acquire)
WorkerCount(cp) ==
    /\ workers[cp].pc = "spawned"
    /\ loading' = loading + 1
    /\ workers' = [workers EXCEPT ![cp].pc = "counted"]
    /\ UNCHANGED <<chunks, arcs, engine, nsets, last, panicked>>
    /\ noWorldChunk

\* The job: gen.write() claims the writer bit, then waits for the readers to leave
WorkerWrite(cp) ==
    /\ workers[cp].pc = "counted"
    /\ arcs[cp].writer = "none"
    /\ arcs' = [arcs EXCEPT ![cp].writer = "worker"]
    /\ workers' = [workers EXCEPT ![cp] = [pc |-> "locked", at |-> 1]]
    /\ UNCHANGED <<chunks, loading, engine, nsets, last, panicked>>
    /\ noWorldChunk

\* A fill test that leaves the surface layer empty
StrictlyBelow(y, height) == y < height

\* The job: if y + chunk.pos().y * CHUNK_SIZE <= height
AtOrBelow(y, height) == y <= height

\* The job: one cell of the fill loop
WorkerFill(cp) ==
    /\ workers[cp].pc = "locked"
    /\ arcs[cp].readers = 0
    /\ workers[cp].at <= Len(FillOrder)
    /\ LET pos    == FillOrder[workers[cp].at]
           height == noise[<<pos[1], pos[3]>>]
           ch     == arcs[cp].chunk
           r      == IF AtOrBelow(pos[2] + ch.pos[2] * SIZE, height)
                     THEN set_unchecked(registry, ch, pos, SolidBlock)
                     ELSE [chunk |-> ch, panic |-> FALSE]
       IN  IF r.panic
           THEN /\ arcs' = [arcs EXCEPT ![cp].writer = "none"]
                /\ workers' = [workers EXCEPT ![cp].pc = "panicked"]
           ELSE /\ arcs' = [arcs EXCEPT ![cp].chunk = r.chunk]
                /\ workers' = [workers EXCEPT ![cp].at = @ + 1]
    /\ UNCHANGED <<chunks, loading, engine, nsets, last, panicked>>
    /\ noWorldChunk

\* The job: drop(chunk)
WorkerDrop(cp) ==
    /\ workers[cp].pc = "locked"
    /\ workers[cp].at > Len(FillOrder)
    /\ arcs' = [arcs EXCEPT ![cp].writer = "none"]
    /\ workers' = [workers EXCEPT ![cp] = [pc |-> "unlocked", at |-> 0]]
    /\ UNCHANGED <<chunks, loading, engine, nsets, last, panicked>>
    /\ noWorldChunk

\* A job that decrements the counter while it still holds the write lock
WorkerDoneEarly(cp) ==
    /\ workers[cp].pc = "locked"
    /\ workers[cp].at > Len(FillOrder)
    /\ loading' = loading - 1
    /\ workers' = [workers EXCEPT ![cp].pc = "done"]
    /\ UNCHANGED <<chunks, arcs, engine, nsets, last, panicked>>
    /\ noWorldChunk

\* The job: count.fetch_sub(1, Ordering::Release)
WorkerDone(cp) ==
    /\ workers[cp].pc = "unlocked"
    /\ loading' = loading - 1
    /\ workers' = [workers EXCEPT ![cp].pc = "done"]
    /\ UNCHANGED <<chunks, arcs, engine, nsets, last, panicked>>
    /\ noWorldChunk

\* World::num_chunks_loading
NumChunksLoading ==
    /\ Idle
    /\ last' = [op |-> "num_chunks_loading",
                 ret |-> IF loading = 0 THEN "zero" ELSE "nonzero"]
    /\ UNCHANGED <<chunks, arcs, loading, workers, engine, nsets, panicked>>
    /\ noWorldChunk

\* Whether World::get finds the chunk of pos and read-locks it
GetSome(pos) == ChunkKey(pos) \in chunks /\ try_read(arcs[ChunkKey(pos)])

\* Whether World::get_mut and World::set find the chunk of pos and write-lock it
GetMutSome(pos) == ChunkKey(pos) \in chunks /\ try_write(arcs[ChunkKey(pos)])

\* World::get; the guard it returns is kept, or dropped at once
WorldGet(pos, keep) ==
    /\ Idle
    /\ keep => HeldGuards < MaxHandles
    /\ arcs' = IF GetSome(pos) /\ keep
               THEN [arcs EXCEPT ![ChunkKey(pos)].readers = @ + 1]
               ELSE arcs
    /\ last' = [op |-> "get", ret |-> IF GetSome(pos) THEN "Some" ELSE "None"]
    /\ UNCHANGED <<chunks, loading, workers, engine, nsets, panicked>>
    /\ noWorldChunk

\* World::get_mut; the guard it returns is kept, or dropped at once
WorldGetMut(pos, keep) ==
    /\ Idle
    /\ keep => HeldGuards < MaxHandles
    /\ arcs' = IF GetMutSome(pos) /\ keep
               THEN [arcs EXCEPT ![ChunkKey(pos)].writer = "engine"]
               ELSE arcs
    /\ last' = [op |-> "get_mut", ret |-> IF GetMutSome(pos) THEN "Some" ELSE "None"]
    /\ UNCHANGED <<chunks, loading, workers, engine, nsets, panicked>>
    /\ noWorldChunk

\* World::get_chunk; the guard it returns is kept, or dropped at once
GetChunk(cp, keep) ==
    /\ Idle
    /\ keep => HeldGuards < MaxHandles
    /\ LET some == cp \in chunks /\ try_read(arcs[cp])
       IN  /\ arcs' = IF some /\ keep THEN [arcs EXCEPT ![cp].readers = @ + 1] ELSE arcs
           /\ last' = [op |-> "get_chunk", ret |-> IF some THEN "Some" ELSE "None"]
    /\ UNCHANGED <<chunks, loading, workers, engine, nsets, panicked>>
    /\ noWorldChunk

\* World::get_chunk_mut; the guard it returns is kept, or dropped at once
GetChunkMut(cp, keep) ==
    /\ Idle
    /\ keep => HeldGuards < MaxHandles
    /\ LET some == cp \in chunks /\ try_write(arcs[cp])
       IN  /\ arcs' = IF some /\ keep THEN [arcs EXCEPT ![cp].writer = "engine"] ELSE arcs
           /\ last' = [op |-> "get_chunk_mut", ret |-> IF some THEN "Some" ELSE "None"]
    /\ UNCHANGED <<chunks, loading, workers, engine, nsets, panicked>>
    /\ noWorldChunk

\* World::set
WorldSet(pos, block) ==
    /\ Idle
    /\ IF GetMutSome(pos)
       THEN LET cp == ChunkKey(pos)
                r  == set_unchecked(registry, arcs[cp].chunk, LocalPos(pos), block)
            IN  /\ nsets < MaxWorldSets
                /\ arcs' = [arcs EXCEPT ![cp].chunk = r.chunk]
                /\ panicked' = r.panic
                /\ nsets' = nsets + 1
                /\ last' = [op |-> "set", ret |-> "Ok"]
       ELSE /\ last' = [op |-> "set", ret |-> "Err"]
            /\ UNCHANGED <<arcs, panicked, nsets>>
    /\ UNCHANGED <<chunks, loading, workers, engine>>
    /\ noWorldChunk

\* The engine thread drops a read guard
DropRead(cp) ==
    /\ Idle
    /\ arcs[cp] # None
    /\ arcs[cp].readers > 0
    /\ arcs' = [arcs EXCEPT ![cp].readers = @ - 1]
    /\ last' = [op |-> "drop", ret |-> "()"]
    /\ UNCHANGED <<chunks, loading, workers, engine, nsets, panicked>>
    /\ noWorldChunk

\* The engine thread drops a write guard
DropWrite(cp) ==
    /\ Idle
    /\ arcs[cp] # None
    /\ arcs[cp].writer = "engine"
    /\ arcs' = [arcs EXCEPT ![cp].writer = "none"]
    /\ last' = [op |-> "drop", ret |-> "()"]
    /\ UNCHANGED <<chunks, loading, workers, engine, nsets, panicked>>
    /\ noWorldChunk

Next ==
    \/ \E cp \in ChunkPositions : LoadChunk(cp)
    \/ LoadChunkInsert
    \/ \E cp \in ChunkPositions : WorkerCount(cp)
    \/ \E cp \in ChunkPositions : WorkerWrite(cp)
    \/ \E cp \in ChunkPositions : WorkerFill(cp)
    \/ \E cp \in ChunkPositions : WorkerDrop(cp)
    \/ \E cp \in ChunkPositions : WorkerDone(cp)
    \/ NumChunksLoading
    \/ \E pos \in WorldPositions, keep \in BOOLEAN : WorldGet(pos, keep)
    \/ \E pos \in WorldPositions, keep \in BOOLEAN : WorldGetMut(pos, keep)
    \/ \E cp \in ChunkPositions, keep \in BOOLEAN : GetChunk(cp, keep)
    \/ \E cp \in ChunkPositions, keep \in BOOLEAN : GetChunkMut(cp, keep)
    \/ \E pos \in WorldPositions, block \in WorldBlocks : WorldSet(pos, block)
    \/ \E cp \in ChunkPositions : DropRead(cp)
    \/ \E cp \in ChunkPositions : DropWrite(cp)

Spec == Init /\ [][Next]_vars

----------------------------------------------------------------------------
(* World claims *)

\* The job of a chunk is still to start, or has started and not yet filled its chunk
Generating(cp) == cp \in ChunkPositions /\ workers[cp].pc \in {"spawned", "counted", "locked"}

\* The job of a chunk was handed to the pool and has not returned
Unfinished(cp) == workers[cp].pc \in {"spawned", "counted", "locked", "unlocked"}

\* No chunk was ever created for the position
Absent(cp) == cp \notin ChunkPositions \/ arcs[cp] = None

\* C1: once num_chunks_loading() has returned 0, no job of a loaded chunk is
\* still to start or still holds the write lock, and the World::get that follows
\* returns Some for every position of every loaded chunk (that the caller has
\* not write-locked itself).
C1_ZeroMeansQueryable ==
    (last = [op |-> "num_chunks_loading", ret |-> "zero"] /\ Idle) =>
        /\ \A cp \in chunks : ~Generating(cp)
        /\ \A pos \in WorldPositions :
              (ChunkKey(pos) \in chunks /\ arcs[ChunkKey(pos)].writer # "engine")
                  => GetSome(pos)

\* C2: the loading counter is the number of accepted jobs that have not yet
\* finished, and it is not 0 while a job is still to start or still filling.
C2_CounterCountsJobs ==
    /\ loading = Cardinality({cp \in ChunkPositions : Unfinished(cp)})
    /\ loading = 0 => \A cp \in ChunkPositions : ~Generating(cp)

\* C3: World::get and World::get_mut return None for every position whose chunk
\* is Generating.
C3_GeneratingIsHidden ==
    Idle =>
        \A pos \in WorldPositions :
            Generating(ChunkKey(pos)) => ~GetSome(pos) /\ ~GetMutSome(pos)

\* C4: World::set on a position whose chunk is Absent or Generating returns
\* Err(()) and leaves every chunk as it was.
C4_SetUnavailableIsErr ==
    [][\A pos \in WorldPositions, block \in WorldBlocks :
          (WorldSet(pos, block) /\ (Absent(ChunkKey(pos)) \/ Generating(ChunkKey(pos))))
              => (~GetMutSome(pos) /\ arcs' = arcs)]_vars

\* C11: World::get, get_mut and set look a position up in the chunk at
\* floor(pos / 32) and at the local coordinate pos mod 32, so that
\* chunk * 32 + local = pos, negative components included.
C11_FloorDivision ==
    \A pos \in WorldPositions :
        ChunkKey(pos) \in chunks =>
            \A i \in 1..3 :
                /\ ChunkKey(pos)[i] = pos[i] \div SIZE
                /\ LocalPos(pos)[i] = pos[i] % SIZE
                /\ ChunkKey(pos)[i] * SIZE + LocalPos(pos)[i] = pos[i]

\* C12: load_chunk on a position already in the chunk map starts no job and
\* replaces no chunk, and a job is only ever started for a position that has no
\* chunk and no job yet.
C12_LoadChunkIdempotent ==
    [][/\ \A cp \in ChunkPositions :
            (LoadChunk(cp) /\ cp \in chunks)
                => UNCHANGED <<chunks, arcs, workers, loading, engine>>
       /\ \A cp \in ChunkPositions :
            (workers'[cp].pc = "spawned" /\ workers[cp].pc # "spawned")
                => (workers[cp].pc = "none" /\ cp \notin chunks)]_vars

\* C12 witness: load_chunk has just returned early on a position whose chunk is
\* in the map, while that chunk's job is still running.
C12_Witness ==
    /\ last = [op |-> "load_chunk", ret |-> "present"]
    /\ \E cp \in chunks : Generating(cp)

\* The lock of the chunk of pos cannot be taken for reading at once
ReadRefused(pos) == ChunkKey(pos) \in chunks /\ arcs[ChunkKey(pos)].writer # "none"

\* The lock of the chunk of pos cannot be taken for writing at once
WriteRefused(pos) ==
    /\ ChunkKey(pos) \in chunks
    /\ (arcs[ChunkKey(pos)].writer # "none" \/ arcs[ChunkKey(pos)].readers > 0)

WorkerHolds(cp) == workers[cp].pc = "locked" /\ workers[cp].at > 1

\* C14: a mutable handle (from get_mut / get_chunk_mut, or the write guard of a
\* generation job) never coexists with a read handle or with another mutable
\* handle of the same chunk, and while one is alive every get, get_mut, set,
\* get_chunk and get_chunk_mut on that chunk fails.
C14_WriterExcludesAll ==
    \A cp \in chunks :
        /\ (arcs[cp].writer = "engine" \/ WorkerHolds(cp)) => arcs[cp].readers = 0
        /\ ~(arcs[cp].writer = "engine" /\ WorkerHolds(cp))
        /\ (Idle /\ (arcs[cp].writer = "engine" \/ WorkerHolds(cp))) =>
              /\ ~(cp \in chunks /\ try_read(arcs[cp]))
              /\ ~(cp \in chunks /\ try_write(arcs[cp]))
              /\ \A pos \in WorldPositions :
                    ChunkKey(pos) = cp =>
                        /\ ~GetSome(pos)
                        /\ ~GetMutSome(pos)
                        /\ \A block \in WorldBlocks :
                              ~ENABLED (WorldSet(pos, block) /\ last'.ret = "Ok")

\* C14 witness: World::get has just returned None on a generated chunk whose
\* mutable handle the engine thread holds.
C14_Witness ==
    /\ last = [op |-> "get", ret |-> "None"]
    /\ \E cp \in chunks : workers[cp].pc = "done" /\ arcs[cp].writer = "engine"

\* The chunk a world position lies in: floor(pos / 32) per component
FloorKey(pos) == << pos[1] \div SIZE, pos[2] \div SIZE, pos[3] \div SIZE >>

\* C15: while the engine thread holds a mutable handle on one loaded chunk,
\* World::get_mut and World::set on a position of a different loaded chunk that
\* nobody has locked succeed.
C15_ChunksIndependent ==
    Idle =>
        \A pos \in WorldPositions, cp1 \in chunks :
            LET cp2 == FloorKey(pos)
            IN  ( /\ cp2 \in chunks
                  /\ cp1 # cp2
                  /\ workers[cp1].pc = "done"
                  /\ workers[cp2].pc = "done"
                  /\ arcs[cp1].writer = "engine"
                  /\ arcs[cp2].writer = "none"
                  /\ arcs[cp2].readers = 0 )
                => GetMutSome(pos)

\* C15 with the chunk of a position taken as World::get_mut computes it
C15_KeyedAsLookedUp ==
    Idle =>
        \A pos \in WorldPositions, cp1 \in chunks :
            LET cp2 == ChunkKey(pos)
            IN  ( /\ cp2 \in chunks
                  /\ cp1 # cp2
                  /\ workers[cp1].pc = "done"
                  /\ workers[cp2].pc = "done"
                  /\ arcs[cp1].writer = "engine"
                  /\ arcs[cp2].writer = "none"
                  /\ arcs[cp2].readers = 0 )
                => GetMutSome(pos)

\* The job of a chunk has released the chunk it filled, and the chunk is in the map
Loaded(cp) == cp \in chunks /\ workers[cp].pc \in {"unlocked", "done"}

\* rayon runs every spawned job to its end; parking_lot hands a released lock
\* to a parked writer; load_chunk returns; the engine thread drops its guards
Fairness ==
    /\ WF_vars(LoadChunkInsert)
    /\ \A cp \in ChunkPositions :
          /\ WF_vars(WorkerCount(cp) \/ WorkerFill(cp) \/ WorkerDrop(cp) \/ WorkerDone(cp))
          /\ SF_vars(WorkerWrite(cp))
          /\ WF_vars(DropRead(cp) \/ DropWrite(cp))

\* The engine thread loads chunks and takes and drops block handles while the jobs run
NextFair ==
    \/ \E cp \in ChunkPositions : LoadChunk(cp)
    \/ LoadChunkInsert
    \/ \E cp \in ChunkPositions : WorkerCount(cp)
    \/ \E cp \in ChunkPositions : WorkerWrite(cp)
    \/ \E cp \in ChunkPositions : WorkerFill(cp)
    \/ \E cp \in ChunkPositions : WorkerDrop(cp)
    \/ \E cp \in ChunkPositions : WorkerDone(cp)
    \/ \E pos \in WorldPositions, keep \in BOOLEAN : WorldGet(pos, keep)
    \/ \E pos \in WorldPositions, keep \in BOOLEAN : WorldGetMut(pos, keep)
    \/ \E cp \in ChunkPositions : DropRead(cp)
    \/ \E cp \in ChunkPositions : DropWrite(cp)

SpecFair == Init /\ [][NextFair]_vars /\ Fairness

ChunkState(arc, worker) ==
    IF arc = None THEN "Absent"
    ELSE IF worker.pc \in {"spawned", "counted", "locked"} THEN "Generating"
    ELSE "Loaded"

\* C33: each chunk position moves only Absent -> Generating -> Loaded:
\* Absent -> Generating only by an accepted load_chunk, Generating -> Loaded
\* only by the job's completion, no position returns to Absent or goes from
\* Loaded back to Generating, and the chunk map never loses an entry.
C33_ChunkLifecycle ==
    [][/\ chunks \subseteq chunks'
       /\ \A cp \in ChunkPositions :
             LET s == ChunkState(arcs[cp], workers[cp])
                 t == ChunkState(arcs'[cp], workers'[cp])
             IN  \/ s = t
                 \/ s = "Absent" /\ t = "Generating" /\ LoadChunk(cp)
                 \/ s = "Generating" /\ t = "Loaded" /\ WorkerDrop(cp)]_vars

\* C33: one position is loaded and in the map while another is still generating
C33_Witness ==
    \E cp, cq \in ChunkPositions :
        /\ cp \in chunks
        /\ ChunkState(arcs[cp], workers[cp]) = "Loaded"
        /\ ChunkState(arcs[cq], workers[cq]) = "Generating"

\* The job of the chunk has finished and the engine thread wrote no cell
Generated(cp) ==
    /\ arcs[cp] # None
    /\ workers[cp].pc \in {"unlocked", "done"}
    /\ nsets = 0

\* The cell at pos of the chunk at cp holds the fill block if it lies at or
\* below the terrain height of its column, and is the zero cell otherwise
CellAsGenerated(cp, pos) ==
    LET ch == arcs[cp].chunk
    IN  IF pos[2] + cp[2] * SIZE <= noise[<<pos[1], pos[3]>>]
        THEN /\ tag(ch.blocks[flatten_idx(pos)]) = "Val"
             /\ get_unchecked(registry, ch, pos) = {SolidBlock}
        ELSE ch.blocks[flatten_idx(pos)] = zeroed

LockFree(cp) == arcs[cp].readers = 0 /\ arcs[cp].writer = "none"

\* C36: when a generation worker takes the write lock on the chunk it is about
\* to fill, no other party holds or can be holding a lock on that chunk, so the
\* worker's acquisition never waits on the engine thread.
C36_WorkerLockUncontended ==
    \A cp \in ChunkPositions :
        /\ workers[cp].pc \in {"spawned", "counted"} => LockFree(cp)
        /\ workers[cp].pc = "locked" => arcs[cp].readers = 0

\* C36 for the part of the job that runs before load_chunk has inserted the chunk
C36_BeforeInsert ==
    \A cp \in ChunkPositions :
        (workers[cp].pc \in {"spawned", "counted"} /\ cp \notin chunks) => LockFree(cp)

\* A job whose decrement happened has released its chunk
DoneMeansReleased ==
    \A cp \in ChunkPositions :
        workers[cp].pc = "done" =>
            /\ arcs[cp].writer # "worker"
            /\ nsets = 0 => \A pos \in TrackedPos : CellAsGenerated(cp, pos)

\* The steps of one job come in the order of the closure: the counter goes up
\* before the lock is taken, the lock is taken once, it is released after the
\* last cell of the fill loop, and the counter goes down after the release
JobStepsInOrder(cp) ==
    /\ (arcs[cp] # None /\ arcs[cp].writer # "worker" /\ arcs'[cp].writer = "worker")
          => (workers[cp].pc = "counted" /\ loading >= 1)
    /\ (workers[cp].pc # "counted" /\ workers'[cp].pc = "counted")
          => loading' = loading + 1
    /\ (arcs[cp] # None /\ arcs[cp].writer = "worker" /\ arcs'[cp].writer # "worker")
          => (workers[cp].at > Len(FillOrder) /\ loading' = loading)
    /\ (workers[cp].pc # "done" /\ workers'[cp].pc = "done")
          => (/\ workers[cp].pc = "unlocked"
              /\ arcs[cp].writer # "worker"
              /\ loading' = loading - 1)

\* C39: a generation worker releases its chunk's write lock before it
\* decrements the loading counter and increments the counter before it takes
\* the lock; hence whenever a job's decrement is visible, that job's chunk is
\* fully populated and no longer write-locked by the worker.
C39_CounterBracketsLock ==
    /\ []DoneMeansReleased
    /\ [][\A cp \in ChunkPositions : JobStepsInOrder(cp)]_vars

\* C39: one job has decremented the counter while another holds its lock
C39_Witness ==
    \E cp, cq \in ChunkPositions :
        /\ workers[cp].pc = "done"
        /\ arcs[cp].writer = "none"
        /\ workers[cq].pc = "locked"
        /\ arcs[cq].writer = "worker"
        /\ loading = 1

----------------------------------------------------------------------------
(* Chunk claims *)

Running == phase = "running" /\ ~panicked

Registered(block) == RegistryId(registry, block.T) # -1

PtrCells == {i \in Cells : tag(chunk.blocks[i]) = "Ptr"}

\* C5: every slot-shaped cell refers to a live arena instance, and every live
\* arena instance is referred to by some cell.
C5_ArenaLinked ==
    phase = "running" =>
        /\ \A i \in PtrCells : SlabContains(chunk.addr_blocks, PtrSlot(chunk.blocks[i]))
        /\ \A k \in SlabLive(chunk.addr_blocks) :
                \E i \in PtrCells : PtrSlot(chunk.blocks[i]) = k

\* C6: a set with a block type that is not in the registry leaves the cells and
\* the arena of the chunk as they were.
C6_UnregisteredSetIsNoOp ==
    [][\A pos \in TrackedPos \cup OutsidePos, block \in Blocks :
          (Set(pos, block) /\ ~Registered(block)) => chunk' = chunk]_vars

\* C7: the arena is never asked to remove a key that holds no live instance
\* (which the slab answers with a panic).
C7_NoVacantRemove == ~panicked

\* C8: after set(p, b) with a registered type, get(p) is the block b for as long
\* as no other set is made to p.
C8_GetReturnsWritten ==
    Running =>
        \A i \in Cells :
            written[i] # None => get_unchecked_flat(registry, chunk, i) = {written[i]}

\* The chunk after set(p, b1) then set(p, b2); a panic ends the sequence
SetTwice(ch, pos, b1, b2) ==
    LET r1 == ChunkSet(registry, ch, pos, b1)
    IN  IF r1.panic THEN r1 ELSE ChunkSet(registry, r1.chunk, pos, b2)

RegisteredBlocks == {b \in Blocks : Registered(b)}

\* set(p, b1); set(p, b2) leaves as many live slots as set(p, b2) alone
NoLeakAcrossOverwrite ==
    \A pos \in TrackedPos, b1 \in RegisteredBlocks, b2 \in RegisteredBlocks :
        LiveCount(SetTwice(chunk, pos, b1, b2).chunk)
            = LiveCount(ChunkSet(registry, chunk, pos, b2).chunk)

\* C9 as stated: no leak across overwrites, and storing a heap block and then
\* overwriting it with an inline block returns the live count to what it was
\* before the heap block was stored.
C9_OverwriteRestoresCount ==
    Running =>
        /\ NoLeakAcrossOverwrite
        /\ \A pos \in TrackedPos, h \in RegisteredBlocks, v \in RegisteredBlocks :
              LET r == SetTwice(chunk, pos, h, v)
              IN  (REPR(h.T) = "Ptr" /\ REPR(v.T) = "Val" /\ ~r.panic) =>
                      LiveCount(r.chunk) = LiveCount(chunk)

\* C9 amended: no leak across overwrites, and storing a heap block and then
\* overwriting it with an inline block leaves the live count it was before the
\* heap block was stored, less the instance the cell held then (if it was
\* slot-shaped).
C9_OverwriteReleasesOne ==
    Running =>
        /\ NoLeakAcrossOverwrite
        /\ \A pos \in TrackedPos, h \in RegisteredBlocks, v \in RegisteredBlocks :
              LET r == SetTwice(chunk, pos, h, v)
                  held == IF tag(chunk.blocks[flatten_idx(pos)]) = "Ptr" THEN 1 ELSE 0
              IN  (REPR(h.T) = "Ptr" /\ REPR(v.T) = "Val" /\ ~r.panic) =>
                      LiveCount(r.chunk) = LiveCount(chunk) - held

\* C9 witness: a cell holds a heap block that a set stored there, and storing a
\* heap block over it and then an inline block releases that one instance.
C9_Witness ==
    /\ Running
    /\ \E pos \in TrackedPos, v \in RegisteredBlocks :
          LET i == flatten_idx(pos)
              r == SetTwice(chunk, pos, written[i], v)
          IN  /\ written[i] # None
              /\ REPR(written[i].T) = "Ptr"
              /\ REPR(v.T) = "Val"
              /\ tag(chunk.blocks[i]) = "Ptr"
              /\ SlabContains(chunk.addr_blocks, PtrSlot(chunk.blocks[i]))
              /\ ~r.panic
              /\ LiveCount(r.chunk) = LiveCount(chunk) - 1

\* C10: the slot the arena hands out next holds no live instance, and no two
\* slot-shaped cells carry the same slot.
C10_SlotsDistinct ==
    phase = "running" =>
        /\ ~SlabContains(chunk.addr_blocks, chunk.addr_blocks.next)
        /\ \A i \in PtrCells, j \in PtrCells :
                i # j => PtrSlot(chunk.blocks[i]) # PtrSlot(chunk.blocks[j])

\* C16: Chunk::new(pos, registry) yields a chunk whose cells all hold the zero
\* word (inline tag, id 0, state 0), whose arena is empty and whose pos() is pos.
C16_NewChunkIsZeroed ==
    [][\A pos \in ChunkPositions :
          NewChunk(pos) =>
              /\ chunk'.pos = pos
              /\ \A w \in {chunk'.blocks[i] : i \in Cells} \cup {chunk'.others} :
                    /\ w = 0
                    /\ tag(w) = "Val"
                    /\ ValId(w) = 0
                    /\ ValState(w) = 0
              /\ Cells \subseteq 0..(VOLUME - 1)
              /\ chunk'.addr_blocks.entries = << >>
              /\ LiveCount(chunk') = 0]_vars

\* C16 witness: a chunk has been created at (0, -1, 0) and nothing was stored yet.
C16_Witness ==
    /\ phase = "running"
    /\ chunk = ChunkNew(<<0, -1, 0>>)
    /\ \A i \in Cells : written[i] = None

\* Out of bounds, Chunk::get and get_mut return None and Chunk::set changes nothing
OutOfBoundsIsRefused ==
    \A pos \in OutsidePos :
        /\ ChunkGet(registry, chunk, pos) = {None}
        /\ ChunkGetMut(registry, chunk, pos) = {None}
        /\ \A block \in Blocks :
              ChunkSet(registry, chunk, pos, block) = [chunk |-> chunk, panic |-> FALSE]

\* C17: for a position with a coordinate >= 32, Chunk::get and get_mut return
\* None and Chunk::set changes neither cells nor arena and does not abort; for
\* every in-bounds position get and get_mut return Some.
C17_NoneIffOutOfBounds ==
    Running =>
        /\ OutOfBoundsIsRefused
        /\ \A pos \in TrackedPos :
              /\ ChunkGet(registry, chunk, pos) \cap {None, Abort} = {}
              /\ ChunkGetMut(registry, chunk, pos) \cap {None, Abort} = {}

\* The out-of-bounds half of C17 alone
C17_OutOfBoundsHalf == Running => OutOfBoundsIsRefused

\* Indices at which the iterator is examined: the followed cells, the corners
\* of the flattening and the last cell
IterSample == Cells \cup {0, 31, 32, 1023, 1024, VOLUME - 1}

\* The n-th item comes at position (n mod 32, (n div 32) mod 32, n div 1024),
\* which flattens to n, and the iterator ends after VOLUME items
IterPositionsRight ==
    /\ \A n \in IterSample :
          LET it == IterNext(registry, chunk, n)
          IN  /\ it.item # None
              /\ it.next = n + 1
              /\ it.item.pos = << n % SIZE, (n \div SIZE) % SIZE, n \div (SIZE * SIZE) >>
              /\ in_bounds(it.item.pos)
              /\ flatten_idx(it.item.pos) = n
    /\ IterNext(registry, chunk, VOLUME) = [item |-> None, next |-> VOLUME]

\* C18: Chunk::iter yields exactly 32768 items, the n-th at position
\* (n mod 32, (n div 32) mod 32, n div 1024), with the block that Chunk::get
\* returns at that position.
C18_IterAgreesWithGet ==
    Running =>
        /\ IterPositionsRight
        /\ \A n \in IterSample :
              LET it == IterNext(registry, chunk, n)
              IN  \E b \in Blocks :
                      /\ it.item.block = {b}
                      /\ ChunkGet(registry, chunk, it.item.pos) = {b}

\* The positional half of C18 alone
C18_PositionsHalf == Running => IterPositionsRight

\* C19: block::Registry::default() already binds id 0 to the air block type, so
\* the cells of a chunk freshly created over the registry resolve to air, and no
\* later register call takes id 0.
C19_AirHoldsIdZero ==
    /\ RegistryId(RegistryDefault, "BlockAir") = 0
    /\ RegistryId(registry, "BlockAir") = 0
    /\ \A cp \in ChunkPositions, pos \in TrackedPos :
          \A b \in ChunkGet(registry, ChunkNew(cp), pos) : b \in Blocks /\ b.T = "BlockAir"

----------------------------------------------------------------------------
(* util::Registry on its own: the key map, the id-ordered entries and their
   metadata. In this specification `registry` holds the whole structure. *)

\* Metadata values a caller may pass to register
Metas == {"meta_a", "meta_b"}

\* util::Registry::default
UtilDefault == [map |-> << >>, rev |-> << >>]

\* register without the contains_key test
UtilRegisterAlways(reg, K, meta) ==
    [map |-> (K :> Len(reg.rev)) @@ reg.map,
     rev |-> Append(reg.rev, <<K, meta>>)]

\* register numbering ids from 1
UtilRegisterFromOne(reg, K, meta) ==
    IF K \notin DOMAIN reg.map
    THEN [map |-> (K :> Len(reg.rev) + 1) @@ reg.map,
          rev |-> Append(reg.rev, <<K, meta>>)]
    ELSE reg

\* util::Registry::register::<K>(meta)
UtilRegister(reg, K, meta) ==
    IF K \notin DOMAIN reg.map
    THEN [map |-> (K :> Len(reg.rev)) @@ reg.map,
          rev |-> Append(reg.rev, <<K, meta>>)]
    ELSE reg

\* util::Registry::id::<K>(); -1 stands for Option::None
UtilId(reg, K) == IF K \in DOMAIN reg.map THEN reg.map[K] ELSE -1

\* util::Registry::get(id)
UtilGet(reg, id) ==
    IF id >= 0 /\ id < Len(reg.rev) THEN reg.rev[id + 1] ELSE None

InitRegistry ==
    /\ registry = UtilDefault
    /\ phase = "startup"
    /\ chunk = None
    /\ panicked = FALSE
    /\ written = << >>
    /\ NoWorld

\* registry.register::<K>(meta)
Register(K, meta) ==
    /\ registry' = UtilRegister(registry, K, meta)
    /\ last' = [op |-> "register", key |-> K, meta |-> meta]
    /\ UNCHANGED <<phase, chunk, panicked, written>>
    /\ UNCHANGED <<chunks, arcs, loading, workers, engine, noise, nsets>>

NextRegistry == \E K \in BlockTypes, meta \in Metas : Register(K, meta)

SpecRegistry == InitRegistry /\ [][NextRegistry]_vars

\* C20: registering a key that is already registered changes nothing: the key
\* keeps its id, no new id is consumed and the stored metadata stays.
C20_ReRegisterIsNoOp ==
    [][\A K \in BlockTypes, meta \in Metas :
          (Register(K, meta) /\ UtilId(registry, K) # -1) =>
              /\ UtilId(registry', K) = UtilId(registry, K)
              /\ Len(registry'.rev) = Len(registry.rev)
              /\ UtilGet(registry', UtilId(registry, K)) = UtilGet(registry, UtilId(registry, K))
              /\ registry' = registry]_vars

\* A key was registered again with other metadata than it is stored with, after
\* a later key took the next id
C20_Witness ==
    /\ last = [op |-> "register", key |-> "BlockAir", meta |-> "meta_b"]
    /\ UtilGet(registry, 0) = <<"BlockAir", "meta_a">>
    /\ UtilId(registry, "BlockChest") = 1

\* The ids in use are 0..n-1 for the n registered keys, and id and get are
\* mutually inverse
IdsAreBijective ==
    LET n == Len(registry.rev)
    IN  /\ Cardinality(DOMAIN registry.map) = n
        /\ {UtilId(registry, K) : K \in DOMAIN registry.map} = 0..(n - 1)
        /\ \A K \in DOMAIN registry.map :
              UtilGet(registry, UtilId(registry, K))[1] = K
        /\ \A i \in 0..(n - 1) :
              UtilId(registry, UtilGet(registry, i)[1]) = i
        /\ UtilGet(registry, n) = None
        /\ \A K \in BlockTypes \ DOMAIN registry.map : UtilId(registry, K) = -1

\* C21: after any sequence of register calls the ids are exactly 0..n-1 in
\* first-registration order, id and get are mutually inverse, and an id once
\* assigned to a key never changes.
C21_IdsDenseAndStable ==
    /\ []IdsAreBijective
    /\ [][\A K \in BlockTypes :
             /\ UtilId(registry, K) # -1 => UtilId(registry', K) = UtilId(registry, K)
             /\ (UtilId(registry, K) = -1 /\ UtilId(registry', K) # -1)
                    => (UtilId(registry', K) = Len(registry.rev) /\ last'.key = K)]_vars

\* All four types registered, the last one after a re-registration of an earlier one
C21_Witness ==
    /\ Len(registry.rev) = 4
    /\ UtilId(registry, "BlockWoodenSlab") = 0
    /\ UtilId(registry, "BlockAir") = 3
    /\ last.key = "BlockChest"

----------------------------------------------------------------------------
(* A game that registers many block types: key n stands for the n-th
   distinct block type the startup code registers *)

\* Distinct block types the startup code has
NumTypeKeys == 513

\* Ids a 9-bit field can hold (the id field of a Val word)
IdLimit == Pow2(9)

\* registry.register::<K>(meta) for the next type not yet registered
RegisterDistinct ==
    /\ Len(registry.rev) < NumTypeKeys
    /\ LET K == Len(registry.rev)
       IN  /\ registry' = UtilRegister(registry, K, "meta_a")
           /\ last' = [op |-> "register", key |-> K, meta |-> "meta_a"]
    /\ UNCHANGED <<phase, chunk, panicked, written>>
    /\ UNCHANGED <<chunks, arcs, loading, workers, engine, noise, nsets>>

SpecManyTypes == InitRegistry /\ [][RegisterDistinct]_vars

\* C22: registering a 513th distinct block type is refused, and no id >= 512 is
\* ever assigned, so the id of an inline cell never spills into the tag bit.
C22_AtMost512Ids ==
    /\ \A K \in DOMAIN registry.map :
          LET id == UtilId(registry, K)
          IN  /\ id < IdLimit
              /\ tag(from_val(id, 0)) = "Val"
              /\ ValId(from_val(id, 0)) = id
    /\ (last # None /\ last.key >= IdLimit) => UtilId(registry, last.key) = -1

----------------------------------------------------------------------------
(* block::Packed on its own: one constructor call on every argument *)

\* Nothing but the call under examination exists
NoProgram ==
    /\ registry = RegistryDefault
    /\ phase = "startup"
    /\ chunk = None
    /\ panicked = FALSE
    /\ written = << >>
    /\ chunks = {}
    /\ arcs = << >>
    /\ loading = 0
    /\ workers = << >>
    /\ engine = None
    /\ noise = << >>
    /\ nsets = 0

noProgram ==
    UNCHANGED <<registry, phase, chunk, panicked, written,
                chunks, arcs, loading, workers, engine, noise, nsets>>

InitPacked == NoProgram /\ last = None

\* Packed::from_val(id, state)
FromVal(id, state) ==
    /\ last' = [op |-> "from_val", id |-> id, state |-> state, ret |-> from_val(id, state)]
    /\ noProgram

\* Packed::from_ptr(slot)
FromPtr(slot) ==
    /\ last' = [op |-> "from_ptr", slot |-> slot, ret |-> from_ptr(slot)]
    /\ noProgram

\* One call per run
NextPacked ==
    \/ last = None /\ \E id \in 0..(IdLimit - 1), state \in 0..(Pow2(6) - 1) : FromVal(id, state)
    \/ last = None /\ \E slot \in 0..(VOLUME - 1) : FromPtr(slot)

SpecPacked == InitPacked /\ [][NextPacked]_vars

\* Words a cell is compared with
OtherWords == {0, 63, 64, 32767, 32768, 32769, 65535}

\* C23: from_val(id, state) has tag Val and gives back id and state, from_ptr(s)
\* has tag Ptr and gives back s, and two cells are equal exactly when their
\* 16-bit words are equal.
C23_PackedFieldsRoundTrip ==
    last # None =>
        /\ last.ret \in 0..(U16 - 1)
        /\ last.op = "from_val" =>
              /\ tag(last.ret) = "Val"
              /\ Shr(last.ret, 15) = 0
              /\ ValId(last.ret) = last.id
              /\ ValState(last.ret) = last.state
              /\ last.ret = last.id * 64 + last.state
        /\ last.op = "from_ptr" =>
              /\ tag(last.ret) = "Ptr"
              /\ Shr(last.ret, 15) = 1
              /\ PtrSlot(last.ret) = last.slot
        /\ \A w \in OtherWords \cup {last.ret} : PackedEq(last.ret, w) <=> (last.ret = w)

\* The largest id has been packed with the largest state
C23_Witness ==
    last = [op |-> "from_val", id |-> 511, state |-> 63, ret |-> 32767]

----------------------------------------------------------------------------
(* Typed handles over the cells of a chunk: dyn Object::is / cast / cast_mut,
   Deref / DerefMut and Drop for RefMut. While a RefMut lives it borrows the
   chunk mutably, so no other call on the chunk runs until it is dropped;
   `engine` holds the RefMut. *)

\* The dyn Object a cell resolves to: the block it presents, and whether the
\* vtable is the one of the Typed<T> wrapper over the packed word
ObjectAt(ch, pos, block) ==
    [block |-> block, typed |-> tag(ch.blocks[flatten_idx(pos)]) = "Val"]

\* ObjectPriv::inner_type_id
inner_type_id(obj) == obj.block.T

\* Any::type_id of the value behind the dyn Object
type_id(obj) == IF obj.typed THEN <<"Typed", obj.block.T>> ELSE obj.block.T

\* dyn Object::is::<T>
is(obj, T) == inner_type_id(obj) = T

\* dyn Object::cast::<T>: the block the Ref dereferences to, or None
cast(obj, T) == IF is(obj, T) THEN obj.block ELSE None

\* dyn Object::cast_mut::<T> on the object of cell `pos`: the RefMut, or None
cast_mut(obj, T, pos) ==
    IF is(obj, T)
    THEN [kind  |-> IF obj.typed THEN "Val" ELSE "Ptr",
          T     |-> T,
          state |-> obj.block,
          pos   |-> pos,
          wrote |-> FALSE]
    ELSE None

\* Blocks written through a RefMut
HandleWrites ==
    { BlockWoodenPlanks("Oak"),
      BlockChest("North", <<"Stick x64">>, "Alice's Chest") }

\* Blocks stored with Chunk::set before handles are taken
HandleSets ==
    { BlockWoodenPlanks("Birch"), BlockChest("North", <<"Stick x64">>, "None") }

\* chunk.set(pos, block) while no handle is alive
SetUnborrowed(pos, block) == engine = None /\ Set(pos, block)

\* chunk.get_mut(pos) followed by cast_mut::<T>() on the object
CastMut(pos, T) ==
    /\ phase = "running"
    /\ ~panicked
    /\ engine = None
    /\ LET outs == ChunkGetMut(registry, chunk, pos)
       IN  IF outs = {None}
           THEN /\ last' = [op |-> "get_mut", ret |-> "None"]
                /\ UNCHANGED <<engine, panicked>>
           ELSE IF outs = Undefined
           THEN /\ last' = [op |-> "get_mut", ret |-> "undefined"]
                /\ panicked' \in BOOLEAN
                /\ UNCHANGED engine
           ELSE \E b \in outs :
                   LET h == cast_mut(ObjectAt(chunk, pos, b), T, pos)
                   IN  /\ engine' = h
                       /\ last' = [op |-> "cast_mut",
                                   ret |-> IF h = None THEN "None" ELSE "Some"]
                       /\ UNCHANGED panicked
    /\ UNCHANGED <<registry, phase, chunk, written>>
    /\ UNCHANGED <<chunks, arcs, loading, workers, noise, nsets>>

\* *handle = block (DerefMut): the owned copy of an inline block, or the
\* instance in the arena
DerefMutWrite(block) ==
    /\ engine # None
    /\ block.T = engine.T
    /\ engine' = [engine EXCEPT !.state = block, !.wrote = TRUE]
    /\ IF engine.kind = "Ptr"
       THEN LET idx  == flatten_idx(engine.pos)
                slot == PtrSlot(chunk.blocks[idx])
            IN  /\ chunk' = [chunk EXCEPT !.addr_blocks.entries[slot + 1].val = block]
                /\ written' = [written EXCEPT ![idx] = block]
       ELSE UNCHANGED <<chunk, written>>
    /\ last' = [op |-> "deref_mut", ret |-> "()"]
    /\ UNCHANGED <<registry, phase, panicked>>
    /\ UNCHANGED <<chunks, arcs, loading, workers, noise, nsets>>

\* Drop for RefMut
DropRefMut ==
    /\ engine # None
    /\ engine' = None
    /\ LET idx == flatten_idx(engine.pos)
       IN  IF engine.kind = "Val"
           THEN IF REPR(engine.T) = "Val"
                THEN /\ chunk' = [chunk EXCEPT !.blocks[idx] =
                                     set_state(chunk.blocks[idx], into_packed(engine.state))]
                     /\ written' = [written EXCEPT ![idx] =
                                     IF engine.wrote THEN engine.state ELSE written[idx]]
                     /\ UNCHANGED panicked
                ELSE /\ panicked' = TRUE
                     /\ UNCHANGED <<chunk, written>>
           ELSE UNCHANGED <<chunk, written, panicked>>
    /\ last' = [op |-> "drop", kind |-> engine.kind, wrote |-> engine.wrote]
    /\ UNCHANGED <<registry, phase>>
    /\ UNCHANGED <<chunks, arcs, loading, workers, noise, nsets>>

\* The registration programs handles are taken under: air first, or not at all
HandleStartups ==
    { <<"BlockAir", "BlockChest", "BlockWoodenPlanks", "BlockWoodenSlab">>,
      <<"BlockChest", "BlockWoodenPlanks">> }

InitHandle ==
    /\ registry \in {RegisterAll(types) : types \in HandleStartups}
    /\ phase = "startup"
    /\ chunk = None
    /\ panicked = FALSE
    /\ written = << >>
    /\ NoWorld

NextHandle ==
    \/ NewChunk(<<0, -1, 0>>)
    \/ \E pos \in TrackedPos, block \in HandleSets : SetUnborrowed(pos, block)
    \/ \E pos \in TrackedPos \cup OutsidePos, T \in BlockTypes : CastMut(pos, T)
    \/ \E block \in HandleWrites : DerefMutWrite(block)
    \/ DropRefMut

SpecHandle == InitHandle /\ [][NextHandle]_vars

\* C24: when a RefMut over an inline cell is dropped after its block was
\* changed to b', the state bits of the cell become pack(b'), its tag bit and id
\* bits stay, and the next get at the position observes b'.
C24_DropCommitsState ==
    [][(DropRefMut /\ engine.kind = "Val" /\ engine.wrote) =>
          LET idx == flatten_idx(engine.pos)
              old == chunk.blocks[idx]
              new == chunk'.blocks[idx]
          IN  /\ ~panicked'
              /\ ValState(new) = into_packed(engine.state)
              /\ tag(new) = "Val" /\ tag(old) = "Val"
              /\ ValId(new) = ValId(old)
              /\ new \div 64 = old \div 64
              /\ \A p \in Cells \ {idx} : chunk'.blocks[p] = chunk.blocks[p]
              /\ chunk'.addr_blocks = chunk.addr_blocks
              /\ ChunkGet(registry, chunk', engine.pos) = {engine.state}]_vars

\* A RefMut over a cell holding birch planks was written with oak planks and dropped
C24_Witness ==
    /\ last # None /\ last.op = "drop" /\ last.kind = "Val" /\ last.wrote
    /\ \E pos \in TrackedPos :
          /\ written[flatten_idx(pos)] = BlockWoodenPlanks("Oak")
          /\ ChunkGet(registry, chunk, pos) = {BlockWoodenPlanks("Oak")}

\* C25: acquiring a RefMut over an inline cell that was written by set and
\* dropping it without writing leaves the cell's 16-bit word as it was.
C25_UnwrittenDropKeepsWord ==
    [][(DropRefMut /\ engine.kind = "Val" /\ ~engine.wrote) =>
          /\ chunk' = chunk
          /\ chunk'.blocks[flatten_idx(engine.pos)] = chunk.blocks[flatten_idx(engine.pos)]
          /\ ~panicked']_vars

\* Every followed cell was filled with birch planks by set, and a RefMut over
\* one of them was dropped unwritten
C25_Witness ==
    /\ last # None /\ last.op = "drop" /\ last.kind = "Val" /\ ~last.wrote
    /\ \A pos \in TrackedPos :
          /\ written[flatten_idx(pos)] = BlockWoodenPlanks("Birch")
          /\ chunk.blocks[flatten_idx(pos)] =
                from_val(RegistryId(registry, "BlockWoodenPlanks"),
                         into_packed(BlockWoodenPlanks("Birch")))

\* dyn Object::is::<T> of block/object.rs: the TypeId of the value behind the
\* trait object is compared
is_by_type_id(obj, T) == type_id(obj) = T

\* BlockRegistry::matches::<T>(id)
matches(reg, T, id) == id < Len(reg) /\ reg[id + 1] = T

\* The typed Chunk::get_unchecked::<T>: whether it returns Some
TypedGetIsSome(reg, ch, pos, T) ==
    LET word == ch.blocks[flatten_idx(pos)]
    IN  IF tag(word) = "Val"
        THEN matches(reg, T, ValId(word))
        ELSE ch.addr_blocks.entries[PtrSlot(word) + 1].val.T = T

\* The type tests on the object of every cell that holds a block stored by set
\* or through a handle; `byTypeId` includes the test of block/object.rs
TypeTestsAgree(byTypeId) ==
    (phase = "running" /\ ~panicked) =>
        \A pos \in TrackedPos :
            LET U    == written[flatten_idx(pos)]
                outs == ChunkGet(registry, chunk, pos)
            IN  (U # None /\ outs # Undefined) =>
                    \A b \in outs, T \in BlockTypes :
                        LET obj == ObjectAt(chunk, pos, b)
                        IN  /\ is(obj, T) <=> (T = U.T)
                            /\ byTypeId => (is_by_type_id(obj, T) <=> (T = U.T))
                            /\ (cast(obj, T) # None) <=> is(obj, T)
                            /\ (cast_mut(obj, T, pos) # None) <=> is(obj, T)
                            /\ cast(obj, T) # None => cast(obj, T) = U
                            /\ TypedGetIsSome(registry, chunk, pos, T) <=> (T = U.T)

\* C26: for the object of a cell holding a block of type U (inline or heap),
\* is::<T>() is true exactly when T = U, and cast, cast_mut and the typed get
\* return Some exactly then.
C26_IsExactlyTheHeldType == TypeTestsAgree(TRUE)

\* C26 with is as block/borrow.rs defines it (inner_type_id) only
C26_InnerTypeIdHalf == TypeTestsAgree(FALSE)

----------------------------------------------------------------------------
(* util::Bits<N> on its own: one call on every array, range and value *)

\* impl Valid for Bits<N>
ValidN == 1..8

\* Every Bits<N>: new clips to the low N bits and no call sets a higher one
BitsOf(N) == 0..(Pow2(N) - 1)

\* Bytes passed to set
SetValues == {0, 1, 2, 85, 170, 255}

\* Bits::<N>::new(val)
New(N, val) ==
    /\ last' = [op |-> "new", N |-> N, val |-> val, ret |-> BitsNew(N, val)]
    /\ noProgram

\* bits.get::<START, END>()
Get(N, bits, START, END) ==
    /\ RangeCompiles(N, START, END)
    /\ last' = [op |-> "get", N |-> N, bits |-> bits, START |-> START, END |-> END,
                ret |-> BitsGet(N, bits, START, END)]
    /\ noProgram

\* bits.set::<START, END>(val); ret is the array afterwards
BSet(N, bits, START, END, val) ==
    /\ RangeCompiles(N, START, END)
    /\ last' = [op |-> "set", N |-> N, bits |-> bits, START |-> START, END |-> END,
                val |-> val, ret |-> BitsSet(N, bits, START, END, val)]
    /\ noProgram

\* One call per run
NextBits ==
    \/ last = None /\ \E N \in ValidN, val \in 0..(U8 - 1) : New(N, val)
    \/ last = None /\ \E N \in ValidN, END \in 1..8, START \in 0..7 :
                         \E bits \in BitsOf(N) : Get(N, bits, START, END)
    \/ last = None /\ \E N \in ValidN, END \in 1..8, START \in 0..7 :
                         \E bits \in BitsOf(N), val \in SetValues : BSet(N, bits, START, END, val)

SpecBits == InitPacked /\ [][NextBits]_vars

\* C27: Bits::<N>::new(v) keeps only the low N bits of v, for every N in 1..=8
\* and every byte v.
C27_NewKeepsLowBits ==
    (last # None /\ last.op = "new") =>
        /\ last.ret = last.val % Pow2(last.N)
        /\ last.ret \in BitsOf(last.N)

\* The array of the clip_new test: six bits of 0b1100_1100
C27_Witness == last = [op |-> "new", N |-> 6, val |-> 204, ret |-> 12]

\* The ranges of Bits<N> the documentation admits
RangesOf(N) == { <<s, e>> \in (0..7) \X (1..8) : s < e /\ e <= N }

\* What set and get do on the ranges that compile: set::<START,END>(v) makes
\* get::<START,END>() return v mod 2^(END-START), leaves every disjoint range
\* as it was, sets no bit above N, and get::<0,N>() is inner()
SetGetAgree ==
    /\ (last # None /\ last.op = "set") =>
          /\ BitsGet(last.N, last.ret, last.START, last.END)
                = last.val % Pow2(last.END - last.START)
          /\ \A r \in RangesOf(last.N) :
                (RangeCompiles(last.N, r[1], r[2]) /\ (r[2] <= last.START \/ last.END <= r[1]))
                    => BitsGet(last.N, last.ret, r[1], r[2]) = BitsGet(last.N, last.bits, r[1], r[2])
          /\ last.ret \in BitsOf(last.N)
          /\ RangeCompiles(last.N, 0, last.N) => BitsGet(last.N, last.ret, 0, last.N) = last.ret
    /\ (last # None /\ last.op = "get") =>
          /\ last.ret = (last.bits \div Pow2(last.N - last.END)) % Pow2(last.END - last.START)
          /\ (last.START = 0 /\ last.END = last.N) => last.ret = last.bits

\* C28: for Bits<N> and START < END <= N, set::<START,END>(v) makes
\* get::<START,END>() return v mod 2^(END-START), leaves get::<A,B>() unchanged
\* on every disjoint range, keeps the bits above N zero, and get::<0,N>() is
\* inner().
C28_SetWritesItsRangeOnly ==
    /\ \A N \in ValidN : \A r \in RangesOf(N) : RangeCompiles(N, r[1], r[2])
    /\ SetGetAgree

\* C28 on the arrays and ranges whose calls compile
C28_WhereItCompiles == SetGetAgree

----------------------------------------------------------------------------
(* #[derive(block::State)] on its own: the derive applied to struct
   declarations, and the generated into_packed / from_packed *)

\* Fields a declared struct has at most
MaxFields == 2

EnumAttr(k) ==
    [attr |-> "Enum", variants |-> SubSeq(WoodVariants, 1, k),
     from |-> 0, to |-> 0, limits |-> "None"]

RangeAttr(from, to, limits) ==
    [attr |-> "Range", variants |-> << >>, from |-> from, to |-> to, limits |-> limits]

NeverAttr == [attr |-> "Never", variants |-> << >>, from |-> 0, to |-> 0, limits |-> "None"]

\* #[prop(...)] attributes the declarations are built from
DeriveAttrs ==
    {NeverAttr}
      \cup {EnumAttr(k) : k \in {1, 2, 3, 4, 6}}
      \cup {RangeAttr(0, 2, "HalfOpen"), RangeAttr(0, 4, "HalfOpen"), RangeAttr(2, 6, "HalfOpen"),
            RangeAttr(0, 16, "HalfOpen"), RangeAttr(0, 64, "HalfOpen"),
            RangeAttr(0, 2, "Closed"), RangeAttr(2, 6, "Closed")}

FieldIdents == <<"f1", "f2", "f3", "f4">>

\* Struct declarations: up to MaxFields fields, each with one attribute
Declarations ==
    UNION { { [n \in 1..len |->
                 [ident |-> FieldIdents[n]] @@ attrs[n]] :
              attrs \in [1..len -> DeriveAttrs] } : len \in 0..MaxFields }

\* The values a bounded field admits: its listed variants, or the integers of
\* the range as declared
Admitted(field) ==
    CASE field.attr = "Enum" -> {field.variants[i] : i \in 1..Len(field.variants)}
      [] field.attr = "Range" ->
            IF field.limits = "HalfOpen" THEN field.from..(field.to - 1)
            ELSE field.from..field.to
      [] OTHER -> {}

\* One admitted value for each of the first n fields
RECURSIVE ChoicesOf(_, _)
ChoicesOf(fields, n) ==
    IF n = 0 THEN { << >> }
    ELSE { Append(c, v) : c \in ChoicesOf(fields, n - 1), v \in Admitted(fields[n]) }

\* The block values of a declared struct whose fields are all bounded
ValuesOf(fields) ==
    { [k \in {"T"} \cup {fields[n].ident : n \in 1..Len(fields)} |->
          IF k = "T" THEN "Declared"
          ELSE choice[CHOOSE n \in 1..Len(fields) : fields[n].ident = k]] :
      choice \in ChoicesOf(fields, Len(fields)) }

\* #[derive(State)] struct Declared { fields }
Derive(fields) ==
    /\ last' = [op |-> "derive", fields |-> fields, repr |-> derive_block_state(fields)]
    /\ noProgram

\* One declaration per run
NextDerive == last = None /\ \E fields \in Declarations : Derive(fields)

SpecDerive == InitPacked /\ [][NextDerive]_vars

\* The generated pair on a declaration
Pack(fields, b) == IntoPackedFields(fields, b, Len(fields))
Unpack(fields, s) == FromPackedFields(fields, "Declared", s)

\* unpack(pack(b)) = b on every admitted value, pack(unpack(s)) = s on every
\* packed state, and each field's code sits alone in the bit range that starts
\* at the running sum of the widths before it
RoundTrips(fields) ==
    /\ \A b \in ValuesOf(fields) :
          /\ Unpack(fields, Pack(fields, b)) = b
          /\ Pack(fields, Unpack(fields, Pack(fields, b))) = Pack(fields, b)
          /\ \A n \in 1..Len(fields) :
                BitsGet(6, Pack(fields, b), OffsetOf(fields, n),
                        OffsetOf(fields, n) + bit_size(fields[n]))
                    = FieldCode(fields[n], b) % Pow2(bit_size(fields[n]))
    /\ \A n \in 1..Len(fields) :
          /\ OffsetOf(fields, n) = SumSizes(fields, n - 1)
          /\ OffsetOf(fields, n) + bit_size(fields[n]) <= 6
          /\ \A m \in 1..(n - 1) :
                OffsetOf(fields, m) + bit_size(fields[m]) <= OffsetOf(fields, n)

\* C29: for every derived inline block type, from_packed(into_packed(b)) = b on
\* every value whose fields take listed variants or in-range integers,
\* into_packed(from_packed(s)) = s on the image of into_packed, and the fields
\* occupy disjoint bit ranges at the running sum of the preceding widths.
C29_PackUnpackRoundTrip ==
    (last # None /\ last.op = "derive" /\ last.repr = "Val") => RoundTrips(last.fields)

\* C29 on the declarations without a closed (from..=to) range
C29_WithoutClosedRanges ==
    (/\ last # None /\ last.op = "derive" /\ last.repr = "Val"
     /\ \A n \in 1..Len(last.fields) : last.fields[n].limits # "Closed")
        => RoundTrips(last.fields)

\* ceil(log2 k), for the k that occur (k <= 64)
CeilLog2(k) == CHOOSE n \in 0..6 : Pow2(n) >= k /\ \A m \in 0..(n - 1) : Pow2(m) < k

\* The number of values a bounded field lists
Listed(field) == Cardinality(Admitted(field))

\* Sum over the first n fields of ceil(log2 (values listed))
RECURSIVE LogBudget(_, _)
LogBudget(fields, n) ==
    IF n = 0 THEN 0 ELSE LogBudget(fields, n - 1) + CeilLog2(Listed(fields[n]))

Unbounded(fields) == \E n \in 1..Len(fields) : fields[n].attr = "Never"

TwoSixVariantEnums == <<[ident |-> "f1"] @@ EnumAttr(6), [ident |-> "f2"] @@ EnumAttr(6)>>

\* C30: the derive gives a type the bit budget sum of ceil(log2 k) over its enum
\* fields (k listed variants) and ceil(log2 (hi - lo)) over its integer ranges
\* [lo, hi); the type is Repr::Val exactly when no field is unbounded and that
\* sum is at most 6, Repr::Ptr otherwise, so a struct of two 6-variant enum
\* fields (3 + 3 bits) is Repr::Val.
C30_BudgetIsSumOfLog2 ==
    (last # None /\ last.op = "derive") =>
        /\ ~Unbounded(last.fields) =>
              SumSizes(last.fields, Len(last.fields)) = LogBudget(last.fields, Len(last.fields))
        /\ last.repr = "Val" <=>
              (/\ ~Unbounded(last.fields)
               /\ LogBudget(last.fields, Len(last.fields)) <= 6)
        /\ last.fields = TwoSixVariantEnums => last.repr = "Val"

\* C30 with the widths the code assigns: Repr::Val exactly when no field is
\* unbounded and the sum of bit_size over the fields is at most 6
C30_BudgetAsCoded ==
    (last # None /\ last.op = "derive") =>
        (last.repr = "Val" <=>
            (/\ ~Unbounded(last.fields)
             /\ SumSizes(last.fields, Len(last.fields)) <= 6))

\* C30 on the struct of two 6-variant enum fields alone
C30_TwoSixVariantEnumsAreVal ==
    (last # None /\ last.op = "derive" /\ last.fields = TwoSixVariantEnums)
        => last.repr = "Val"

\* The code into_packed leaves in the bit range of field n
StoredCode(fields, n, b) ==
    BitsGet(6, Pack(fields, b), OffsetOf(fields, n),
            OffsetOf(fields, n) + bit_size(fields[n]))

\* Field n of a declaration is an integer range written lo..hi
IsHalfOpenRange(field) == field.attr = "Range" /\ field.limits = "HalfOpen"

\* Every u8 the field n can hold, the other fields at admitted values, is
\* stored as v - lo inside [lo, hi) and as 0 outside when outsideToo, and
\* only the values inside are looked at otherwise
RangeCodes(fields, outsideToo) ==
    \A n \in 1..Len(fields) :
        IsHalfOpenRange(fields[n]) =>
            \A b \in ValuesOf(fields) : \A v \in 0..(U8 - 1) :
                LET lo   == fields[n].from
                    hi   == fields[n].to
                    with == [b EXCEPT ![fields[n].ident] = v]
                IN  IF lo <= v /\ v < hi
                    THEN StoredCode(fields, n, with) = v - lo
                    ELSE outsideToo => StoredCode(fields, n, with) = 0

\* C31: into_packed of an integer-range field declared lo..hi encodes v as
\* v - lo when lo <= v < hi and encodes 0 for every v outside [lo, hi).
C31_RangeEncodesOffsetOrZero ==
    (last # None /\ last.op = "derive" /\ last.repr = "Val")
        => RangeCodes(last.fields, TRUE)

\* C31 on the values inside [lo, hi) alone
C31_InRangeHalf ==
    (last # None /\ last.op = "derive" /\ last.repr = "Val")
        => RangeCodes(last.fields, FALSE)

----------------------------------------------------------------------------
(* util::ThreadJobs: jobs pushed to the pool, results received by join *)

\* Jobs pushed over a run
MaxJobs == 3

Jobs == 1..MaxJobs

\* ThreadJobs::new: no job pushed, an empty channel
InitJobs ==
    /\ registry = RegistryDefault
    /\ phase = "startup"
    /\ chunk = None
    /\ panicked = FALSE
    /\ written = << >>
    /\ chunks = {}
    /\ arcs = << >>
    /\ loading = 0
    /\ workers = [j \in Jobs |-> "none"]
    /\ engine = None
    /\ noise = << >>
    /\ nsets = 0
    /\ last = None

noJobs == UNCHANGED <<registry, phase, chunk, panicked, chunks, arcs, loading, noise, nsets>>

\* Live Sender handles: self.send, and the clone each unfinished job owns
Senders == 1 + Cardinality({j \in Jobs : workers[j] = "queued"})

\* ThreadJobs::push(f): clone the sender, hand the closure to the pool
Push(j) ==
    /\ workers[j] = "none"
    /\ workers' = [workers EXCEPT ![j] = "queued"]
    /\ last' = [op |-> "push", job |-> j]
    /\ UNCHANGED <<written, engine>>
    /\ noJobs

\* The pooled closure: send.send(f()).unwrap(), then the clone is dropped
JobRun(j) ==
    /\ workers[j] = "queued"
    /\ written' = Append(written, j)
    /\ workers' = [workers EXCEPT ![j] = "sent"]
    /\ UNCHANGED <<engine, last>>
    /\ noJobs

\* ThreadJobs::join: self.recv.iter()
Join ==
    /\ engine = None
    /\ engine' = [yielded |-> << >>, ended |-> FALSE]
    /\ last' = [op |-> "join"]
    /\ UNCHANGED <<written, workers>>
    /\ noJobs

\* Iter::next on the iterator of join: Receiver::recv, which waits while the
\* channel is empty and a Sender is alive, and fails once none is
JoinNext ==
    /\ engine # None
    /\ ~engine.ended
    /\ written # << >> \/ Senders = 0
    /\ IF written # << >>
       THEN /\ engine' = [engine EXCEPT !.yielded = Append(@, Head(written))]
            /\ written' = Tail(written)
            /\ last' = [op |-> "next", ret |-> Head(written)]
       ELSE /\ engine' = [engine EXCEPT !.ended = TRUE]
            /\ last' = [op |-> "next", ret |-> "None"]
            /\ UNCHANGED written
    /\ UNCHANGED workers
    /\ noJobs

NextJobs ==
    \/ \E j \in Jobs : Push(j)
    \/ \E j \in Jobs : JobRun(j)
    \/ Join
    \/ JoinNext

\* The pool runs every closure it was handed; the caller keeps calling next
SpecJobs ==
    /\ InitJobs /\ [][NextJobs]_vars
    /\ \A j \in Jobs : WF_vars(JobRun(j))
    /\ WF_vars(JoinNext)

Joining == engine # None /\ ~engine.ended

\* Every result sent so far was yielded, or waits in the channel, exactly once
YieldedOnce ==
    engine # None =>
        LET seen == engine.yielded \o written
        IN  /\ \A i, k \in 1..Len(seen) : seen[i] = seen[k] => i = k
            /\ {seen[i] : i \in 1..Len(seen)} = {j \in Jobs : workers[j] = "sent"}

\* C34: ThreadJobs::join terminates: once every job pushed so far has
\* completed, the iterator it returns yields exactly those jobs' results, each
\* once, and then ends, instead of blocking forever.
C34_JoinTerminates ==
    /\ []YieldedOnce
    /\ Joining ~> (engine # None /\ engine.ended)

\* C34 without the end of the iteration: the results come out, each once
C34_YieldsEachOnce ==
    /\ []YieldedOnce
    /\ Joining ~> (Joining /\ written = << >> /\ Senders = 1)

\* An inline-shaped word names a registered type with inline packing
InlineWellFormed(reg, w) ==
    tag(w) = "Val" => (ValId(w) < Len(reg) /\ REPR(reg[ValId(w) + 1]) = "Val")

\* C37: after any sequence of Chunk::new and Chunk::set, every inline-shaped
\* cell (untouched zero cells included, whatever the registration order, and
\* over an empty registry too) carries an id that the chunk's registry binds to
\* a type with inline packing, so resolving a cell never indexes past the
\* registry and never applies a heap type's vtable to packed bits.
C37_InlineCellsAreBound ==
    Running =>
        /\ \A i \in Cells : InlineWellFormed(registry, chunk.blocks[i])
        /\ InlineWellFormed(registry, chunk.others)
        /\ \A pos \in TrackedPos : get_unchecked(registry, chunk, pos) # Undefined

\* C37 for the cells that a Chunk::set of a registered block wrote last
C37_WrittenCellsAreBound ==
    Running =>
        \A i \in Cells :
            (written[i] # None /\ RegistryId(registry, written[i].T) # -1)
                => InlineWellFormed(registry, chunk.blocks[i])

\* Slot indices the arena of a chunk has handed out so far
SlotsHandedOut(ch) == 0..(Len(ch.addr_blocks.entries) - 1)

\* C38: every slot index the arena hands out for a chunk is below 32768 and
\* the arena never holds more than 32768 live instances (one per cell at
\* most), so the narrowing of the slot to 15 bits in Packed::from_ptr loses
\* nothing and leaves the tag bit alone.
C38_SlotsFitFifteenBits ==
    chunk # None =>
        /\ VOLUME = Pow2(15)
        /\ Cardinality(Cells) <= VOLUME
        /\ LiveCount(chunk) <= Cardinality(Cells)
        /\ \A slot \in SlotsHandedOut(chunk) :
              /\ slot < Cardinality(Cells)
              /\ slot < Pow2(15)
              /\ tag(from_ptr(slot)) = "Ptr"
              /\ PtrSlot(from_ptr(slot)) = slot

\* C38: every followed cell holds a heap block and the arena is full
C38_Witness ==
    /\ chunk # None
    /\ ~panicked
    /\ \A i \in Cells : tag(chunk.blocks[i]) = "Ptr"
    /\ LiveCount(chunk) = Cardinality(Cells)
    /\ Len(chunk.addr_blocks.entries) = Cardinality(Cells)

====
